---- MODULE Spec2Model ----
(***************************************************************************)
(* Investigation Session Engine of gofigure-web.                           *)
(*                                                                         *)
(* One game session of the registry (internal/api/handlers.go), its        *)
(* countdown goroutine, the HTTP handlers that act on it, each running on  *)
(* its own goroutine, and the per-character transcript                     *)
(* (internal/game/character.go).  The source takes no lock anywhere, so    *)
(* every handler is cut into one step per access to shared memory and the  *)
(* steps of different goroutines interleave freely.  A read-modify-write   *)
(* of the source (x++, x = !x, s = append(s, m)) is a read step that keeps *)
(* the value in a local of the goroutine and a later write step.           *)
(***************************************************************************)
EXTENDS Integers, Sequences, FiniteSets, TLC

\* ------------------------------------------------------------------ bounds

\* Number of HTTP requests (ask / accuse / timer / toggle) made on the session.
MaxRequests == 2

\* Seconds on the clock at session start; stands for the 3600 of StartGame.
InitialTime == 2

\* ------------------------------------------------------------ fixed data

\* The session identifier StartGame stores, and one that is in no registry.
SessionID == "session_1"
UnknownSessionID == "session_x"

\* The authenticated user who starts the game, and another user.
OwnerID == "owner"
OtherID == "other"

\* The mystery loaded by StartGame (game.Murder): immutable once loaded.
Murder ==
    [ Title |-> "The Blackwood Manor Murder",
      Killer |-> "Eleanor",
      Weapon |-> "Candlestick",
      Location |-> "Library",
      Characters |->
          [ Eleanor |-> [ Name |-> "Eleanor", Personality |-> "nervous and secretive",
                          Reliable |-> FALSE ],
            Victor |-> [ Name |-> "Victor", Personality |-> "calm butler",
                         Reliable |-> TRUE ] ] ]

\* The names of the mystery's characters, and a name that is none of them.
CharacterNames == DOMAIN Murder.Characters
UnknownCharacter == "Nobody"

\* The question a player asks.
Questions == {"Where were you?"}

\* Text is a sequence of tokens: words, the two braces, and the member list
\* "response": a, "emotion": b of a JSON object.
Word(w) == [t |-> "word", a |-> w, b |-> ""]
LBrace == [t |-> "{", a |-> "", b |-> ""]
RBrace == [t |-> "}", a |-> "", b |-> ""]
Members(response, emotion) == [t |-> "members", a |-> response, b |-> emotion]

\* The JSON literal null, and a member list whose response is not a string
\* ("response": 5).
Null == Word("null")
Mistyped == [t |-> "mistyped", a |-> "", b |-> ""]

\* What the text-generation collaborator may return: the object asked for, or prose.
RawReplies ==
    { << LBrace, Members("I was home.", "nervous"), RBrace >>,
      << Word("I"), Word("refuse") >> }

\* Suspect strings a player may send: the killer, near misses of the name, another
\* character.
Suspects == {"Eleanor", "eleanor", "Victor"}

Requests == 1..MaxRequests

\* The WebSocket connections made (part_009, handleWebSocket), and the capacity of a
\* client's send channel, which stands for the 256 of line 111.
MaxClients == 2
SendBuffer == 1
Clients == 1..MaxClients

VARIABLES
    sessions,        \* gh.sessions: the identifiers in the registry
    Timer,           \* session.Timer: "nil", "running" or "stopped"
    RemainingTime,   \* session.RemainingTime
    TimerEnabled,    \* session.TimerEnabled
    GameOver,        \* session.GameOver
    QuestionsAsked,  \* session.QuestionsAsked
    Conversation,    \* Character.Conversation of each character of session.Murder
    completions,     \* the CompleteGameSession calls received by the user service
    ticksCounted,    \* history: the ticks that passed the test of line 146
    startPc,         \* position of the StartGame handler
    timerPc,         \* position of the countdown goroutine
    req,             \* the request goroutines: position, inputs, locals, response
    call,            \* one call of Character.GetCharacterResponse: input and result
    stress,          \* one call of calculateStressResponse: inputs, locals, results
    now,             \* the wall clock time.Now().UnixNano() reads
    started,         \* history: the session each StartGame stored, in order
    clients,         \* Hub.clients: the clients in the hub's map
    send,            \* Client.send of each client: the channel and its buffer
    clientPc,        \* position of each WebSocket client (handleWebSocket, readPump)
    hub              \* position of Hub.Run: its select, or the loop of a broadcast

\* The variables of the session, its countdown and its requests.
vars ==
    << sessions, Timer, RemainingTime, TimerEnabled, GameOver,
       QuestionsAsked, Conversation, completions, ticksCounted, startPc, timerPc,
       req >>

\* The variables no step of the session, the countdown or a request touches.
\* The variables of the WebSocket hub and its clients.
hubVars == << clients, send, clientPc, hub >>

others == << call, stress, now, started, hubVars >>

\* The fields of the session a request or the countdown may change.
sessionFields == << RemainingTime, TimerEnabled, GameOver, QuestionsAsked, Conversation >>

\* What the user service has recorded, and the history of the countdown.
log == << completions, ticksCounted >>

\* A request that has not arrived yet.  overAtArrival and resolvedAtArrival are
\* history: what the session was when the request arrived.
NoRequest ==
    [ pc |-> "new", kind |-> "none", sid |-> "", user |-> "", bodyOK |-> TRUE,
      suspect |-> "", character |-> "", question |-> "",
      correct |-> FALSE, flag |-> FALSE, n |-> 0, conv |-> << >>, prompt |-> << >>,
      reply |-> << >>, status |-> "", body |-> << >>,
      overAtArrival |-> FALSE, resolvedAtArrival |-> FALSE ]

\* No call of GetCharacterResponse is in progress.  resp and failed are what the
\* collaborator returned (a text, or an error); reply and err are what
\* GetCharacterResponse returns: reply is << >> for nil, << r >> for a pointer to r.
NoCall == [ pc |-> "idle", resp |-> << >>, failed |-> FALSE, reply |-> << >>, err |-> FALSE ]

\* No call of calculateStressResponse is in progress.  The numbers are float64 in the
\* source and counted in ten-thousandths here.
NoStress ==
    [ pc |-> "idle", question |-> << >>, personality |-> "", currentStress |-> 0,
      stressIncrease |-> 0, newStressLevel |-> 0, stressState |-> "" ]

\* A client's send channel before handleWebSocket has made it.  n is the number of
\* messages in its buffer; closes and closedBy are history: how often close() was
\* called on it and by which case of Hub.Run.
NoChannel == [ open |-> FALSE, n |-> 0, closes |-> 0, closedBy |-> "" ]

\* ------------------------------------------------------------------- Init

\* NewGameHandler: an empty registry; no session, no countdown, no request yet.
Init ==
    /\ sessions = {}
    /\ Timer = "nil"
    /\ RemainingTime = 0
    /\ TimerEnabled = FALSE
    /\ GameOver = FALSE
    /\ QuestionsAsked = 0
    /\ Conversation = [c \in CharacterNames |-> << >>]
    /\ completions = << >>
    /\ ticksCounted = 0
    /\ startPc = "idle"
    /\ timerPc = "off"
    /\ req = [r \in Requests |-> NoRequest]
    /\ call = NoCall
    /\ stress = NoStress
    /\ now = 0
    /\ started = << >>
    /\ clients = {}
    /\ send = [c \in Clients |-> NoChannel]
    /\ clientPc = [c \in Clients |-> "none"]
    /\ hub = [pc |-> "select", todo |-> {}]

\* -------------------------------------------------------------- StartGame

\* StartGame, lines 124-135: build the session and store it in the registry.
StartGame_Store ==
    /\ startPc = "idle"
    /\ sessions' = sessions \cup {SessionID}
    /\ RemainingTime' = InitialTime
    /\ TimerEnabled' = TRUE
    /\ GameOver' = FALSE
    /\ QuestionsAsked' = 0
    /\ Conversation' = [c \in CharacterNames |-> << >>]
    /\ startPc' = "stored"
    /\ UNCHANGED << Timer, log, timerPc, req >>
    /\ UNCHANGED others

\* StartGame, lines 143-160: create the ticker and spawn the countdown goroutine.
StartGame_StartTimer ==
    /\ startPc = "stored"
    /\ Timer' = "running"
    /\ timerPc' = "recv"
    /\ startPc' = "done"
    /\ UNCHANGED << sessions, sessionFields, log, req >>
    /\ UNCHANGED others

\* ------------------------------------------------- the countdown goroutine

\* line 145: for range session.Timer.C.  Once a second a running ticker puts a tick
\* in its channel and the goroutine, blocked on the channel, takes it.  Both places
\* that stop the ticker write GameOver first (lines 149-150, 319-321), so a tick
\* still buffered when the ticker stops finds GameOver set and changes nothing: only
\* the ticks of a running ticker are delivered here.
Timer_Receive ==
    /\ timerPc = "recv"
    /\ Timer = "running"
    /\ timerPc' = "enabled"
    /\ UNCHANGED << sessions, Timer, sessionFields, log, startPc, req >>
    /\ UNCHANGED others

\* line 146, left operand: session.TimerEnabled
Timer_ReadEnabled ==
    /\ timerPc = "enabled"
    /\ timerPc' = IF TimerEnabled THEN "over" ELSE "recv"
    /\ UNCHANGED << sessions, Timer, sessionFields, log, startPc, req >>
    /\ UNCHANGED others

\* line 146, right operand: !session.GameOver
Timer_ReadGameOver ==
    /\ timerPc = "over"
    /\ timerPc' = IF ~GameOver THEN "dec" ELSE "recv"
    /\ UNCHANGED << sessions, Timer, sessionFields, log, startPc, req >>
    /\ UNCHANGED others

\* Timer_Decrement with the test of line 148 written RemainingTime < 0.
Timer_Decrement_StrictTest ==
    /\ timerPc = "dec"
    /\ RemainingTime' = RemainingTime - 1
    /\ ticksCounted' = ticksCounted + 1
    /\ timerPc' = IF RemainingTime' < 0 THEN "setOver" ELSE "recv"
    /\ UNCHANGED << sessions, Timer, TimerEnabled, GameOver,
                    QuestionsAsked, Conversation, completions, startPc, req >>
    /\ UNCHANGED others

\* lines 147-148: session.RemainingTime--, then the test RemainingTime <= 0.  The
\* countdown is the only writer of RemainingTime.
Timer_Decrement ==
    /\ timerPc = "dec"
    /\ RemainingTime' = RemainingTime - 1
    /\ ticksCounted' = ticksCounted + 1
    /\ timerPc' = IF RemainingTime' <= 0 THEN "setOver" ELSE "recv"
    /\ UNCHANGED << sessions, Timer, TimerEnabled, GameOver,
                    QuestionsAsked, Conversation, completions, startPc, req >>
    /\ UNCHANGED others

\* Timer_SetGameOver leaving the flag as it is.
Timer_SetGameOver_Forget ==
    /\ timerPc = "setOver"
    /\ timerPc' = "stop"
    /\ UNCHANGED << sessions, Timer, sessionFields, log, startPc, req >>
    /\ UNCHANGED others

\* line 149: session.GameOver = true
Timer_SetGameOver ==
    /\ timerPc = "setOver"
    /\ GameOver' = TRUE
    /\ timerPc' = "stop"
    /\ UNCHANGED << sessions, Timer, RemainingTime, TimerEnabled,
                    QuestionsAsked, Conversation, log, startPc, req >>
    /\ UNCHANGED others

\* UserService.CompleteGameSession: the call as the user service receives it.
\* by and r name the caller: the countdown ("timer", 0) or request r ("accuse", r).
CompleteGameSession(by, r, solved, questionsAsked) ==
    Append(completions,
           [by |-> by, req |-> r, solved |-> solved, questions |-> questionsAsked])

\* lines 150-156: session.Timer.Stop(), then CompleteGameSession(sessionID, false,
\* timeSpent, session.QuestionsAsked).
Timer_Stop ==
    /\ timerPc = "stop"
    /\ Timer' = "stopped"
    /\ completions' = CompleteGameSession("timer", 0, FALSE, QuestionsAsked)
    /\ timerPc' = "recv"
    /\ UNCHANGED << sessions, sessionFields, ticksCounted, startPc, req >>
    /\ UNCHANGED others

\* ------------------------------------------------------- request goroutines

\* What a request may carry.  Beside the well-formed requests of the owner there is,
\* for each handler, a request for a session that is not in the registry, one by a
\* user who does not own the session, and one whose body does not decode.
Input(kind, sid, user, bodyOK, suspect) ==
    [ kind |-> kind, sid |-> sid, user |-> user, bodyOK |-> bodyOK, suspect |-> suspect,
      character |-> "", question |-> "" ]

AskInput(sid, user, bodyOK, character, question) ==
    [ kind |-> "Ask", sid |-> sid, user |-> user, bodyOK |-> bodyOK, suspect |-> "",
      character |-> character, question |-> question ]

AskInputs ==
    { AskInput(SessionID, OwnerID, TRUE, c, q) : c \in CharacterNames, q \in Questions }
        \cup { AskInput(UnknownSessionID, OwnerID, TRUE, "Eleanor", "Where were you?"),
               AskInput(SessionID, OtherID, TRUE, "Eleanor", "Where were you?"),
               AskInput(SessionID, OwnerID, FALSE, "", ""),
               AskInput(SessionID, OwnerID, TRUE, UnknownCharacter, "Where were you?") }

AccuseInputs ==
    { Input("Accuse", SessionID, OwnerID, TRUE, s) : s \in Suspects }
        \cup { Input("Accuse", UnknownSessionID, OwnerID, TRUE, Murder.Killer),
               Input("Accuse", SessionID, OtherID, TRUE, Murder.Killer),
               Input("Accuse", SessionID, OwnerID, FALSE, "") }

ToggleInputs ==
    { Input("Toggle", SessionID, OwnerID, TRUE, ""),
      Input("Toggle", UnknownSessionID, OwnerID, TRUE, ""),
      Input("Toggle", SessionID, OtherID, TRUE, "") }

GetTimerInputs ==
    { Input("GetTimer", SessionID, OwnerID, TRUE, ""),
      Input("GetTimer", UnknownSessionID, OwnerID, TRUE, ""),
      Input("GetTimer", SessionID, OtherID, TRUE, "") }

Inputs == AskInputs \cup AccuseInputs \cup ToggleInputs \cup GetTimerInputs

\* Some accusation has returned its verdict.
Resolved == \E q \in Requests : req[q].kind = "Accuse" /\ req[q].status = "200"

\* http.Error(w, msg, code): the handler returns.
Fail(q, msg) == [q EXCEPT !.pc = "done", !.status = msg]

\* A 200 response with its JSON body: the handler returns.
Respond(q, body) == [q EXCEPT !.pc = "done", !.status = "200", !.body = body]

\* Enter without the owner check.
Enter_NoOwnerCheck(r, in) ==
    /\ req[r].pc = "new"
    /\ \A q \in Requests : q < r => req[q].pc # "new"
    /\ LET q == [ NoRequest EXCEPT
                    !.kind = in.kind, !.sid = in.sid, !.user = in.user,
                    !.bodyOK = in.bodyOK, !.suspect = in.suspect,
                    !.character = in.character, !.question = in.question,
                    !.overAtArrival = GameOver, !.resolvedAtArrival = Resolved ]
       IN  req' = [req EXCEPT ![r] =
                     IF in.sid \notin sessions THEN Fail(q, "Game session not found")
                     ELSE [q EXCEPT !.pc = "entered"]]
    /\ UNCHANGED << sessions, Timer, sessionFields, log, startPc, timerPc >>
    /\ UNCHANGED others

\* Enter storing a session under an identifier the registry does not hold.
Enter_CreateOnMiss(r, in) ==
    /\ req[r].pc = "new"
    /\ \A q \in Requests : q < r => req[q].pc # "new"
    /\ LET q == [ NoRequest EXCEPT
                    !.kind = in.kind, !.sid = in.sid, !.user = in.user,
                    !.bodyOK = in.bodyOK, !.suspect = in.suspect,
                    !.character = in.character, !.question = in.question,
                    !.overAtArrival = GameOver, !.resolvedAtArrival = Resolved ]
       IN  req' = [req EXCEPT ![r] =
                     IF in.user # OwnerID THEN Fail(q, "Access denied")
                     ELSE [q EXCEPT !.pc = "entered"]]
    /\ sessions' = sessions \cup {in.sid}
    /\ UNCHANGED << Timer, sessionFields, log, startPc, timerPc >>
    /\ UNCHANGED others

\* The first lines of AskCharacter, MakeAccusation, GetTimer and ToggleTimer, run by
\* the goroutine the HTTP server starts for the request: session, exists :=
\* gh.sessions[sessionID], then the owner check against the session's UserID, which
\* StartGame sets once.  Requests are numbered in the order they arrive.
Enter(r, in) ==
    /\ req[r].pc = "new"
    /\ \A q \in Requests : q < r => req[q].pc # "new"
    /\ LET q == [ NoRequest EXCEPT
                    !.kind = in.kind, !.sid = in.sid, !.user = in.user,
                    !.bodyOK = in.bodyOK, !.suspect = in.suspect,
                    !.character = in.character, !.question = in.question,
                    !.overAtArrival = GameOver, !.resolvedAtArrival = Resolved ]
       IN  req' = [req EXCEPT ![r] =
                     IF in.sid \notin sessions THEN Fail(q, "Game session not found")
                     ELSE IF in.user # OwnerID THEN Fail(q, "Access denied")
                     ELSE [q EXCEPT !.pc = "entered"]]
    /\ UNCHANGED << sessions, Timer, sessionFields, log, startPc, timerPc >>
    /\ UNCHANGED others

\* ----------------------------------------------------------- AskCharacter

\* AskCharacter_Check without the game-over check of lines 209-212.
AskCharacter_Check_NoGuard(r) ==
    /\ req[r].pc = "entered"
    /\ req[r].kind = "Ask"
    /\ req' = [req EXCEPT ![r] =
                 IF ~req[r].bodyOK THEN Fail(req[r], "Invalid request body")
                 ELSE IF req[r].character \notin CharacterNames
                      THEN Fail(req[r], "Character not found")
                 ELSE [req[r] EXCEPT !.pc = "incRead"]]
    /\ UNCHANGED << sessions, Timer, sessionFields, log, startPc, timerPc >>
    /\ UNCHANGED others

\* lines 209-232: the game-over check, the body, the search for the character.
AskCharacter_Check(r) ==
    /\ req[r].pc = "entered"
    /\ req[r].kind = "Ask"
    /\ req' = [req EXCEPT ![r] =
                 IF GameOver THEN Fail(req[r], "Game is over")
                 ELSE IF ~req[r].bodyOK THEN Fail(req[r], "Invalid request body")
                 ELSE IF req[r].character \notin CharacterNames
                      THEN Fail(req[r], "Character not found")
                 ELSE [req[r] EXCEPT !.pc = "incRead"]]
    /\ UNCHANGED << sessions, Timer, sessionFields, log, startPc, timerPc >>
    /\ UNCHANGED others

\* line 235, session.QuestionsAsked++: the read.
AskCharacter_ReadQuestions(r) ==
    /\ req[r].pc = "incRead"
    /\ req' = [req EXCEPT ![r] = [req[r] EXCEPT !.pc = "incWrite", !.n = QuestionsAsked]]
    /\ UNCHANGED << sessions, Timer, sessionFields, log, startPc, timerPc >>
    /\ UNCHANGED others

\* line 235, session.QuestionsAsked++: the write.  Lines 238-257 (the achievement
\* event, the stress computation, the log) change nothing of the session.
AskCharacter_WriteQuestions(r) ==
    /\ req[r].pc = "incWrite"
    /\ QuestionsAsked' = req[r].n + 1
    /\ req' = [req EXCEPT ![r] = [req[r] EXCEPT !.pc = "isInitial", !.n = 0]]
    /\ UNCHANGED << sessions, Timer, RemainingTime, TimerEnabled, GameOver,
                    Conversation, log, startPc, timerPc >>
    /\ UNCHANGED others

\* character.go lines 139-141
IsInitialMessage(conversation) == Len(conversation) = 0

\* character.go lines 90-93
reliabilityNote(c) ==
    IF ~Murder.Characters[c].Reliable
    THEN "You might hide some facts, be evasive, or provide misleading information. Stay in character."
    ELSE "You are generally truthful and helpful."

\* character.go lines 98-127: the persona message of character c, which quotes the
\* first question.
scenario(c, question) ==
    << Word("You are roleplaying as"), Word(Murder.Characters[c].Name),
       Word(Murder.Characters[c].Personality), Word(reliabilityNote(c)),
       Word(Murder.Location), Word(Murder.Weapon), Word(Murder.Killer),
       Word("Reply in this EXACT JSON structure"), Word(question) >>

\* character.go lines 95 and 133: the text of the user entry.
latest(initial, question) ==
    IF initial
    THEN << Word("Detective's question:"), Word(question) >>
    ELSE << Word("Detective's follow up question:"), Word(question),
            Word("IMPORTANT: You MUST respond in this exact JSON format") >>

\* A transcript entry (game.Message).  by names the request that appended it: it
\* stands for the Timestamp, which tells two appends apart.
Message(role, content, emotions, by) ==
    [Role |-> role, Content |-> content, Emotions |-> emotions, by |-> by]

\* character.go line 97: if c.IsInitialMessage()
addQuestion_IsInitial(r) ==
    /\ req[r].pc = "isInitial"
    /\ LET initial == IsInitialMessage(Conversation[req[r].character])
       IN  req' = [req EXCEPT ![r] =
                     [req[r] EXCEPT !.pc = IF initial THEN "seed" ELSE "appendRead",
                                    !.flag = initial]]
    /\ UNCHANGED << sessions, Timer, sessionFields, log, startPc, timerPc >>
    /\ UNCHANGED others

\* character.go lines 129-131: c.Conversation = []*Message{system}
addQuestion_Seed(r) ==
    /\ req[r].pc = "seed"
    /\ Conversation' =
           [Conversation EXCEPT ![req[r].character] =
               << Message("system", scenario(req[r].character, req[r].question), "", r) >>]
    /\ req' = [req EXCEPT ![r].pc = "appendRead"]
    /\ UNCHANGED << sessions, Timer, RemainingTime, TimerEnabled, GameOver,
                    QuestionsAsked, log, startPc, timerPc >>
    /\ UNCHANGED others

\* character.go line 136, c.Conversation = append(c.Conversation, user): the read.
addQuestion_ReadConversation(r) ==
    /\ req[r].pc = "appendRead"
    /\ req' = [req EXCEPT ![r] =
                 [req[r] EXCEPT !.pc = "appendWrite",
                                !.conv = Conversation[req[r].character]]]
    /\ UNCHANGED << sessions, Timer, sessionFields, log, startPc, timerPc >>
    /\ UNCHANGED others

\* character.go line 136, c.Conversation = append(c.Conversation, user): the write.
addQuestion_Append(r) ==
    /\ req[r].pc = "appendWrite"
    /\ Conversation' =
           [Conversation EXCEPT ![req[r].character] =
               Append(req[r].conv,
                      Message("user", latest(req[r].flag, req[r].question), "", r))]
    /\ req' = [req EXCEPT ![r] =
                 [req[r] EXCEPT !.pc = "serialise", !.conv = << >>, !.flag = FALSE]]
    /\ UNCHANGED << sessions, Timer, RemainingTime, TimerEnabled, GameOver,
                    QuestionsAsked, log, startPc, timerPc >>
    /\ UNCHANGED others

\* character.go lines 143-151: json.Marshal of the transcript keeps, of every entry
\* and in order, the role, the content and the emotions (and the timestamp, which
\* no reader of the prompt in this module looks at).
serialiseConversation(conversation) ==
    [i \in 1..Len(conversation) |->
        << conversation[i].Role, conversation[i].Content, conversation[i].Emotions >>]

\* character.go line 69: prompt := c.serialiseConversation(), sent to the collaborator
\* at line 41.
AskQuestion_Serialise(r) ==
    /\ req[r].pc = "serialise"
    /\ req' = [req EXCEPT ![r] =
                 [req[r] EXCEPT
                     !.pc = "generate",
                     !.prompt = serialiseConversation(Conversation[req[r].character])]]
    /\ UNCHANGED << sessions, Timer, sessionFields, log, startPc, timerPc >>
    /\ UNCHANGED others

\* json.Unmarshal([]byte(text), &reply) into llm.CharacterReply.  One JSON object
\* whose members have the types of the struct is stored in reply; the empty object
\* and the literal null store nothing and are no error; any other text is an error.
Unmarshal(text) ==
    IF Len(text) = 3 /\ text[1] = LBrace /\ text[2].t = "members" /\ text[3] = RBrace
    THEN [ok |-> TRUE, reply |-> [Response |-> << Word(text[2].a) >>, Emotion |-> text[2].b]]
    ELSE IF text = << LBrace, RBrace >> \/ text = << Null >>
    THEN [ok |-> TRUE, reply |-> [Response |-> << >>, Emotion |-> ""]]
    ELSE [ok |-> FALSE, reply |-> [Response |-> << >>, Emotion |-> ""]]

\* strings.Index(text, "{"): the first position of the token, 0 when there is none.
Index(text, tok) ==
    IF \E i \in 1..Len(text) : text[i] = tok
    THEN CHOOSE i \in 1..Len(text) :
             text[i] = tok /\ \A j \in 1..(i - 1) : text[j] # tok
    ELSE 0

\* strings.LastIndex(text, "}"): the last position of the token, 0 when there is none.
LastIndex(text, tok) ==
    IF \E i \in 1..Len(text) : text[i] = tok
    THEN CHOOSE i \in 1..Len(text) :
             text[i] = tok /\ \A j \in (i + 1)..Len(text) : text[j] # tok
    ELSE 0

\* character.go lines 154-168
extractJSONFromResponse(response) ==
    LET start == Index(response, LBrace)
        end == LastIndex(response, RBrace)
    IN  IF start # 0 /\ end # 0 /\ end > start
        THEN Unmarshal(SubSeq(response, start, end))
        ELSE [ok |-> FALSE, reply |-> [Response |-> << >>, Emotion |-> ""]]

\* character.go lines 46-61: the reply parsed from the collaborator's text.
GetCharacterResponse(resp) ==
    IF Unmarshal(resp).ok THEN Unmarshal(resp).reply
    ELSE IF extractJSONFromResponse(resp).ok THEN extractJSONFromResponse(resp).reply
    ELSE [Response |-> resp, Emotion |-> "neutral"]

\* character.go lines 41-44 and 72-75, handlers.go lines 264-267: the collaborator
\* call fails and the handler answers 500.
AskQuestion_GenerateFails(r) ==
    /\ req[r].pc = "generate"
    /\ req' = [req EXCEPT ![r] =
                 Fail([req[r] EXCEPT !.prompt = << >>], "Failed to get character response")]
    /\ UNCHANGED << sessions, Timer, sessionFields, log, startPc, timerPc >>
    /\ UNCHANGED others

\* character.go lines 41-62 and line 77: the collaborator returns a text, which is
\* parsed; then the read of c.Conversation = append(c.Conversation, assistant).
AskQuestion_Generate(r, resp) ==
    /\ req[r].pc = "generate"
    /\ req' = [req EXCEPT ![r] =
                 [req[r] EXCEPT !.pc = "reply", !.prompt = << >>,
                                !.reply = GetCharacterResponse(resp),
                                !.conv = Conversation[req[r].character]]]
    /\ UNCHANGED << sessions, Timer, sessionFields, log, startPc, timerPc >>
    /\ UNCHANGED others

\* character.go lines 77-86, the write of the append, and handlers.go lines 269-280,
\* the response.
AskQuestion_AppendReply(r) ==
    /\ req[r].pc = "reply"
    /\ Conversation' =
           [Conversation EXCEPT ![req[r].character] =
               Append(req[r].conv,
                      Message("assistant", req[r].reply.Response, req[r].reply.Emotion, r))]
    /\ req' = [req EXCEPT ![r] =
                 Respond([req[r] EXCEPT !.conv = << >>],
                         [ character |-> req[r].character, question |-> req[r].question,
                           response |-> req[r].reply.Response,
                           emotion |-> req[r].reply.Emotion ])]
    /\ UNCHANGED << sessions, Timer, RemainingTime, TimerEnabled, GameOver,
                    QuestionsAsked, log, startPc, timerPc >>
    /\ UNCHANGED others

\* --------------------------------------------------------- MakeAccusation

\* strings.ToLower on the strings of the model that hold an upper-case letter.
ToLower(name) ==
    CASE name = "Eleanor" -> "eleanor"
      [] name = "Victor" -> "victor"
      [] name = "Where were you?" -> "where were you?"
      [] name = "MURDER" -> "murder"
      [] name = "Aggressive, never calm" -> "aggressive, never calm"
      [] OTHER -> name

\* AccusationCorrect comparing without regard to case (strings.EqualFold).
AccusationCorrect_Fold(suspect, killer) == ToLower(suspect) = ToLower(killer)

\* line 316: correct := req.Suspect == session.Murder.Killer
AccusationCorrect(suspect, killer) == suspect = killer

\* MakeAccusation_Check without the game-over check of lines 301-304.
MakeAccusation_Check_NoGuard(r) ==
    /\ req[r].pc = "entered"
    /\ req[r].kind = "Accuse"
    /\ req' = [req EXCEPT ![r] =
                 IF ~req[r].bodyOK THEN Fail(req[r], "Invalid request body")
                 ELSE [req[r] EXCEPT
                         !.pc = "setOver",
                         !.correct = AccusationCorrect(req[r].suspect, Murder.Killer)]]
    /\ UNCHANGED << sessions, Timer, sessionFields, log, startPc, timerPc >>
    /\ UNCHANGED others

\* lines 301-316: the game-over check, the body, the comparison.
MakeAccusation_Check(r) ==
    /\ req[r].pc = "entered"
    /\ req[r].kind = "Accuse"
    /\ req' = [req EXCEPT ![r] =
                 IF GameOver THEN Fail(req[r], "Game is already over")
                 ELSE IF ~req[r].bodyOK THEN Fail(req[r], "Invalid request body")
                 ELSE [req[r] EXCEPT
                         !.pc = "setOver",
                         !.correct = AccusationCorrect(req[r].suspect, Murder.Killer)]]
    /\ UNCHANGED << sessions, Timer, sessionFields, log, startPc, timerPc >>
    /\ UNCHANGED others

\* line 319: session.GameOver = true
MakeAccusation_SetGameOver(r) ==
    /\ req[r].pc = "setOver"
    /\ GameOver' = TRUE
    /\ req' = [req EXCEPT ![r].pc = "stop"]
    /\ UNCHANGED << sessions, Timer, RemainingTime, TimerEnabled,
                    QuestionsAsked, Conversation, log, startPc, timerPc >>
    /\ UNCHANGED others

\* lines 320-322: if session.Timer != nil { session.Timer.Stop() }
MakeAccusation_StopTimer(r) ==
    /\ req[r].pc = "stop"
    /\ Timer' = IF Timer # "nil" THEN "stopped" ELSE Timer
    /\ req' = [req EXCEPT ![r].pc = "complete"]
    /\ UNCHANGED << sessions, sessionFields, log, startPc, timerPc >>
    /\ UNCHANGED others

\* lines 325-330: the first CompleteGameSession(sessionID, correct, timeSpent,
\* session.QuestionsAsked).
MakeAccusation_Complete(r) ==
    /\ req[r].pc = "complete"
    /\ completions' = CompleteGameSession("accuse", r, req[r].correct, QuestionsAsked)
    /\ req' = [req EXCEPT ![r].pc = "respond"]
    /\ UNCHANGED << sessions, Timer, sessionFields, ticksCounted, startPc, timerPc >>
    /\ UNCHANGED others

\* Verdict revealing the solution only to a correct accusation.
Verdict_HideWhenWrong(correct, questions) ==
    [ correct |-> correct,
      killer |-> IF correct THEN Murder.Killer ELSE "",
      weapon |-> IF correct THEN Murder.Weapon ELSE "",
      location |-> IF correct THEN Murder.Location ELSE "",
      questions |-> questions ]

\* lines 332-339: the response map.
Verdict(correct, questions) ==
    [ correct |-> correct, killer |-> Murder.Killer, weapon |-> Murder.Weapon,
      location |-> Murder.Location, questions |-> questions ]

\* lines 332-388: the response, the second CompleteGameSession, the reply.
MakeAccusation_Respond(r) ==
    /\ req[r].pc = "respond"
    /\ completions' = CompleteGameSession("accuse", r, req[r].correct, QuestionsAsked)
    /\ req' = [req EXCEPT ![r] = Respond(req[r], Verdict(req[r].correct, QuestionsAsked))]
    /\ UNCHANGED << sessions, Timer, sessionFields, ticksCounted, startPc, timerPc >>
    /\ UNCHANGED others

\* ------------------------------------------------------------ ToggleTimer

\* line 435, right-hand side: the read of session.TimerEnabled.
ToggleTimer_Read(r) ==
    /\ req[r].pc = "entered"
    /\ req[r].kind = "Toggle"
    /\ req' = [req EXCEPT ![r] = [req[r] EXCEPT !.pc = "toggle", !.flag = TimerEnabled]]
    /\ UNCHANGED << sessions, Timer, sessionFields, log, startPc, timerPc >>
    /\ UNCHANGED others

\* ToggleTimer_Write reopening the game when it turns the timer back on.
ToggleTimer_Write_Reopen(r) ==
    /\ req[r].pc = "toggle"
    /\ TimerEnabled' = ~req[r].flag
    /\ GameOver' = IF ~req[r].flag THEN FALSE ELSE GameOver
    /\ req' = [req EXCEPT ![r] = [req[r] EXCEPT !.pc = "toggled", !.flag = FALSE]]
    /\ UNCHANGED << sessions, Timer, RemainingTime, QuestionsAsked,
                    Conversation, log, startPc, timerPc >>
    /\ UNCHANGED others

\* line 435: session.TimerEnabled = !session.TimerEnabled
ToggleTimer_Write(r) ==
    /\ req[r].pc = "toggle"
    /\ TimerEnabled' = ~req[r].flag
    /\ req' = [req EXCEPT ![r] = [req[r] EXCEPT !.pc = "toggled", !.flag = FALSE]]
    /\ UNCHANGED << sessions, Timer, RemainingTime, GameOver, QuestionsAsked,
                    Conversation, log, startPc, timerPc >>
    /\ UNCHANGED others

\* lines 437-440: the response reads session.TimerEnabled again.
ToggleTimer_Respond(r) ==
    /\ req[r].pc = "toggled"
    /\ req' = [req EXCEPT ![r] = Respond(req[r], [timer_enabled |-> TimerEnabled])]
    /\ UNCHANGED << sessions, Timer, sessionFields, log, startPc, timerPc >>
    /\ UNCHANGED others

\* --------------------------------------------------------------- GetTimer

\* lines 409-414: the response reads remaining_time, timer_enabled and game_over.
GetTimer_Respond(r) ==
    /\ req[r].pc = "entered"
    /\ req[r].kind = "GetTimer"
    /\ req' = [req EXCEPT ![r] =
                 Respond(req[r], [ remaining_time |-> RemainingTime,
                              timer_enabled |-> TimerEnabled,
                              game_over |-> GameOver ])]
    /\ UNCHANGED << sessions, Timer, sessionFields, log, startPc, timerPc >>
    /\ UNCHANGED others

\* ------------------------------------------------- accesses to shared memory

\* An access: the field (and, for a transcript, the character) and whether it writes.
Access(field, of, mode) == [field |-> field, of |-> of, mode |-> mode]

\* The accesses the countdown goroutine makes in its next step (lines 146-154).
TimerAccesses ==
    CASE timerPc = "enabled" -> { Access("TimerEnabled", "", "read") }
      [] timerPc = "over" -> { Access("GameOver", "", "read") }
      [] timerPc = "dec" -> { Access("RemainingTime", "", "write") }
      [] timerPc = "setOver" -> { Access("GameOver", "", "write") }
      [] timerPc = "stop" -> { Access("Timer", "", "read"),
                               Access("QuestionsAsked", "", "read") }
      [] OTHER -> {}

\* The accesses StartGame makes in its next step once the session is in the registry
\* (line 143).
StartGameAccesses ==
    IF startPc = "stored" THEN { Access("Timer", "", "write") } ELSE {}

\* The accesses request r makes in its next step, once it has found its session.
RequestAccesses(r) ==
    LET q == req[r]
    IN  CASE q.pc = "entered" /\ q.kind \in {"Ask", "Accuse"} ->
                 { Access("GameOver", "", "read") }
          [] q.pc = "entered" /\ q.kind = "Toggle" ->
                 { Access("TimerEnabled", "", "read") }
          [] q.pc = "entered" /\ q.kind = "GetTimer" ->
                 { Access("RemainingTime", "", "read"),
                   Access("TimerEnabled", "", "read"),
                   Access("GameOver", "", "read") }
          [] q.pc = "incRead" -> { Access("QuestionsAsked", "", "read") }
          [] q.pc = "incWrite" -> { Access("QuestionsAsked", "", "write") }
          [] q.pc \in {"isInitial", "appendRead", "serialise", "generate"} ->
                 { Access("Conversation", q.character, "read") }
          [] q.pc \in {"seed", "appendWrite", "reply"} ->
                 { Access("Conversation", q.character, "write") }
          [] q.pc = "setOver" -> { Access("GameOver", "", "write") }
          [] q.pc = "stop" -> { Access("Timer", "", "read") }
          [] q.pc \in {"complete", "respond"} -> { Access("QuestionsAsked", "", "read") }
          [] q.pc = "toggle" -> { Access("TimerEnabled", "", "write") }
          [] q.pc = "toggled" -> { Access("TimerEnabled", "", "read") }
          [] OTHER -> {}

\* Two accesses conflict: the same field, and one of them writes.
Conflict(a, b) ==
    a.field = b.field /\ a.of = b.of /\ (a.mode = "write" \/ b.mode = "write")

\* The source holds no mutex and no channel but the ticker's, so nothing orders the
\* next steps of two goroutines: two goroutines about to make conflicting accesses
\* are a data race.
DataRace ==
    \/ \E r \in Requests : \E a \in RequestAccesses(r) :
           \E b \in TimerAccesses \cup StartGameAccesses : Conflict(a, b)
    \/ \E r1, r2 \in Requests :
           r1 # r2 /\ \E a \in RequestAccesses(r1) : \E b \in RequestAccesses(r2) :
                          Conflict(a, b)
    \/ \E a \in TimerAccesses : \E b \in StartGameAccesses : Conflict(a, b)

\* ------------------------------------------------------------------- Next

Next ==
    \/ StartGame_Store
    \/ StartGame_StartTimer
    \/ Timer_Receive
    \/ Timer_ReadEnabled
    \/ Timer_ReadGameOver
    \/ Timer_Decrement
    \/ Timer_SetGameOver
    \/ Timer_Stop
    \/ \E r \in Requests : \E in \in Inputs : Enter(r, in)
    \/ \E r \in Requests : AskCharacter_Check(r)
    \/ \E r \in Requests : AskCharacter_ReadQuestions(r)
    \/ \E r \in Requests : AskCharacter_WriteQuestions(r)
    \/ \E r \in Requests : addQuestion_IsInitial(r)
    \/ \E r \in Requests : addQuestion_Seed(r)
    \/ \E r \in Requests : addQuestion_ReadConversation(r)
    \/ \E r \in Requests : addQuestion_Append(r)
    \/ \E r \in Requests : AskQuestion_Serialise(r)
    \/ \E r \in Requests : AskQuestion_GenerateFails(r)
    \/ \E r \in Requests : \E resp \in RawReplies : AskQuestion_Generate(r, resp)
    \/ \E r \in Requests : AskQuestion_AppendReply(r)
    \/ \E r \in Requests : MakeAccusation_Check(r)
    \/ \E r \in Requests : MakeAccusation_SetGameOver(r)
    \/ \E r \in Requests : MakeAccusation_StopTimer(r)
    \/ \E r \in Requests : MakeAccusation_Complete(r)
    \/ \E r \in Requests : MakeAccusation_Respond(r)
    \/ \E r \in Requests : ToggleTimer_Read(r)
    \/ \E r \in Requests : ToggleTimer_Write(r)
    \/ \E r \in Requests : ToggleTimer_Respond(r)
    \/ \E r \in Requests : GetTimer_Respond(r)

Spec == Init /\ [][Next]_vars

\* The steps of StartGame once it has stored the session, and of the countdown
\* goroutine.
TimerSteps ==
    \/ StartGame_StartTimer
    \/ Timer_Receive
    \/ Timer_ReadEnabled
    \/ Timer_ReadGameOver
    \/ Timer_Decrement
    \/ Timer_SetGameOver
    \/ Timer_Stop

\* Spec with a game that is started, a ticker that keeps sending its ticks while it
\* runs (time.NewTicker, line 143) and a scheduler that keeps running StartGame and
\* the countdown goroutine.  Nothing is assumed of the requests.
FairSpec == Spec /\ WF_vars(StartGame_Store) /\ WF_vars(TimerSteps)

\* ------------------------------------------- GetCharacterResponse on its own

\* The longest collaborator text, in tokens.
MaxLen == 5

\* The tokens a collaborator text is made of.
Tokens == { Word("Sure"), Null, LBrace, RBrace, Members("I was home.", "nervous"), Mistyped }

\* The texts of exactly n tokens.
RECURSIVE TextsOfLen(_)
TextsOfLen(n) ==
    IF n = 0 THEN { << >> }
    ELSE { Append(text, tok) : text \in TextsOfLen(n - 1), tok \in Tokens }

\* Every text the collaborator may return.
Texts == UNION { TextsOfLen(n) : n \in 0..MaxLen }

\* character.go line 41: resp, err := llmClient.GenerateResponse(ctx, prompt) returns
\* a text.
GetCharacterResponse_Generate(resp) ==
    /\ call.pc = "idle"
    /\ call' = [call EXCEPT !.pc = "generated", !.resp = resp]
    /\ UNCHANGED << vars, stress, now, started, hubVars >>

\* character.go line 41: the collaborator call returns an error.
GetCharacterResponse_GenerateFails ==
    /\ call.pc = "idle"
    /\ call' = [call EXCEPT !.pc = "generated", !.failed = TRUE]
    /\ UNCHANGED << vars, stress, now, started, hubVars >>

\* GetCharacterResponse_Return failing the call when the text is no JSON object and
\* holds none.
GetCharacterResponse_Return_Strict ==
    /\ call.pc = "generated"
    /\ call' = IF call.failed
               \/ (~Unmarshal(call.resp).ok /\ ~extractJSONFromResponse(call.resp).ok)
               THEN [call EXCEPT !.pc = "returned", !.err = TRUE]
               ELSE [call EXCEPT !.pc = "returned",
                                 !.reply = << GetCharacterResponse(call.resp) >>]
    /\ UNCHANGED << vars, stress, now, started, hubVars >>

\* character.go lines 42-61: return nil, err when the call failed, the parsed reply
\* and no error otherwise.
GetCharacterResponse_Return ==
    /\ call.pc = "generated"
    /\ call' = IF call.failed
               THEN [call EXCEPT !.pc = "returned", !.err = TRUE]
               ELSE [call EXCEPT !.pc = "returned",
                                 !.reply = << GetCharacterResponse(call.resp) >>]
    /\ UNCHANGED << vars, stress, now, started, hubVars >>

ReplyNext ==
    \/ \E resp \in Texts : GetCharacterResponse_Generate(resp)
    \/ GetCharacterResponse_GenerateFails
    \/ GetCharacterResponse_Return

ReplySpec == Init /\ [][ReplyNext]_<< vars, others >>

\* ---------------------------------------- calculateStressResponse on its own

\* The longest question, in pieces of text.
MaxWords == 2

\* n as a number of ten-thousandths.
Units(n) == n * 10000

\* math.Max and math.Min
Max(a, b) == IF a >= b THEN a ELSE b
Min(a, b) == IF a <= b THEN a ELSE b

\* handlers.go lines 772-787
highStressKeywords ==
    << "murder", "kill", "weapon", "blood", "death", "guilty",
       "lie", "alibi", "where were you", "motive", "why did you" >>
mediumStressKeywords ==
    << "suspicious", "secret", "hidden", "truth", "evidence",
       "witness", "saw", "heard", "relationship", "money" >>
lowStressKeywords ==
    << "weather", "family", "work", "hobby", "general",
       "hello", "how are", "nice day", "background" >>

\* The pieces of text questions are made of, and the personalities of characters.
Pieces == { "Where were you?", "MURDER", "believe", "secret", "weather", "hello", "tea" }
Personalities ==
    { "nervous and secretive", "calm butler", "Aggressive, never calm", "nervous",
      "stern" }

\* The keywords and personality traits that occur in a lower-case piece of text.
Occurrences(piece) ==
    CASE piece = "where were you?" -> { "where were you" }
      [] piece = "murder" -> { "murder" }
      [] piece = "believe" -> { "lie" }
      [] piece = "secret" -> { "secret" }
      [] piece = "weather" -> { "weather" }
      [] piece = "hello" -> { "hello" }
      [] piece = "nervous and secretive" -> { "nervous", "secretive" }
      [] piece = "nervous" -> { "nervous" }
      [] piece = "calm butler" -> { "calm" }
      [] piece = "aggressive, never calm" -> { "aggressive", "calm" }
      [] OTHER -> {}

\* strings.Contains(text, keyword), for a text given as its pieces.
Contains(text, keyword) == \E i \in 1..Len(text) : keyword \in Occurrences(text[i])

\* The questions of exactly n pieces, and every question.
RECURSIVE QuestionsOfLen(_)
QuestionsOfLen(n) ==
    IF n = 0 THEN { << >> }
    ELSE { Append(q, piece) : q \in QuestionsOfLen(n - 1), piece \in Pieces }
StressQuestions == UNION { QuestionsOfLen(n) : n \in 0..MaxWords }

\* The current stress a request may carry, from 0 to 100.
CurrentStresses == { Units(0), Units(50), Units(100) }

\* What rand.Float64() may return, from 0 up to but not 1.
Floats == { 0, 1000, 5000, 9999 }

\* lines 790-800: for each keyword of the list that the question contains,
\* stressIncrease += step.
RECURSIVE AddMatches(_, _, _, _)
AddMatches(questionLower, keywords, step, stressIncrease) ==
    IF keywords = << >> THEN stressIncrease
    ELSE AddMatches(questionLower, Tail(keywords), step,
                    IF Contains(questionLower, Head(keywords))
                    THEN stressIncrease + step ELSE stressIncrease)

\* LowStep without the floor of math.Max.
LowStep_NoFloor(stressIncrease) == stressIncrease - Units(5)

\* line 804: stressIncrease = math.Max(1.0, stressIncrease-5.0)
LowStep(stressIncrease) == Max(Units(1), stressIncrease - Units(5))

\* lines 802-806: for each low-stress keyword the question contains, LowStep.
RECURSIVE SubtractMatches(_, _, _)
SubtractMatches(questionLower, keywords, stressIncrease) ==
    IF keywords = << >> THEN stressIncrease
    ELSE SubtractMatches(questionLower, Tail(keywords),
                         IF Contains(questionLower, Head(keywords))
                         THEN LowStep(stressIncrease) ELSE stressIncrease)

\* lines 810-821, one modifier: if the personality contains the trait,
\* stressIncrease *= tenths / 10.
Modifier(personalityLower, trait, tenths, stressIncrease) ==
    IF Contains(personalityLower, trait)
    THEN (stressIncrease * tenths) \div 10 ELSE stressIncrease

\* lines 768-821: the increase before the random term.
StressIncrease(question, personality) ==
    LET questionLower == [i \in 1..Len(question) |-> ToLower(question[i])]
        personalityLower == << ToLower(personality) >>
        high == AddMatches(questionLower, highStressKeywords, Units(15), Units(5))
        medium == AddMatches(questionLower, mediumStressKeywords, Units(8), high)
        low == SubtractMatches(questionLower, lowStressKeywords, medium)
        nervous == Modifier(personalityLower, "nervous", 13, low)
        calm == Modifier(personalityLower, "calm", 7, nervous)
        secretive == Modifier(personalityLower, "secretive", 12, calm)
    IN  Modifier(personalityLower, "aggressive", 11, secretive)

\* StressState naming the top tier "panicking".
StressState_Panicking(newStressLevel) ==
    CASE newStressLevel < Units(25) -> "calm"
      [] newStressLevel >= Units(25) /\ newStressLevel < Units(40) -> "composed"
      [] newStressLevel >= Units(40) /\ newStressLevel < Units(55) -> "nervous"
      [] newStressLevel >= Units(55) /\ newStressLevel < Units(70) -> "agitated"
      [] newStressLevel >= Units(70) /\ newStressLevel < Units(85) -> "stressed"
      [] OTHER -> "panicking"

\* lines 831-845: the stress state of a stress level.
StressState(newStressLevel) ==
    CASE newStressLevel < Units(25) -> "calm"
      [] newStressLevel >= Units(25) /\ newStressLevel < Units(40) -> "composed"
      [] newStressLevel >= Units(40) /\ newStressLevel < Units(55) -> "nervous"
      [] newStressLevel >= Units(55) /\ newStressLevel < Units(70) -> "agitated"
      [] newStressLevel >= Units(70) /\ newStressLevel < Units(85) -> "stressed"
      [] OTHER -> "nervous"

\* AskCharacter, line 249: calculateStressResponse(req.Question, character,
\* req.CurrentStress) is called.
calculateStressResponse_Call(question, personality, currentStress) ==
    /\ stress.pc = "idle"
    /\ stress' = [stress EXCEPT !.pc = "keywords", !.question = question,
                                !.personality = personality,
                                !.currentStress = currentStress]
    /\ UNCHANGED << vars, call, now, started, hubVars >>

\* lines 768-821: the keywords and the personality.
calculateStressResponse_Keywords ==
    /\ stress.pc = "keywords"
    /\ stress' = [stress EXCEPT
                     !.pc = "random",
                     !.stressIncrease = StressIncrease(stress.question, stress.personality)]
    /\ UNCHANGED << vars, call, now, started, hubVars >>

\* lines 823-847: the random term, the new stress level, the stress state.
calculateStressResponse_Return(float) ==
    /\ stress.pc = "random"
    /\ LET randomFactor == (float - 5000) * 10
           stressIncrease == stress.stressIncrease + randomFactor
           newStressLevel == Min(Units(100), stress.currentStress + stressIncrease)
       IN  stress' = [stress EXCEPT !.pc = "returned",
                                    !.stressIncrease = stressIncrease,
                                    !.newStressLevel = newStressLevel,
                                    !.stressState = StressState(newStressLevel)]
    /\ UNCHANGED << vars, call, now, started, hubVars >>

StressNext ==
    \/ \E question \in StressQuestions : \E personality \in Personalities :
           \E currentStress \in CurrentStresses :
               calculateStressResponse_Call(question, personality, currentStress)
    \/ calculateStressResponse_Keywords
    \/ \E float \in Floats : calculateStressResponse_Return(float)

StressSpec == Init /\ [][StressNext]_<< vars, others >>

\* ------------------------------------------------ the registry of sessions

\* The number of StartGame requests, the last reading of the clock, and the number
\* of values rand.Intn draws from (it stands for the 1000 of generateSessionID).
MaxSessions == 3
MaxNow == 2
IntnBound == 2

\* handlers.go lines 688-690: fmt.Sprintf("session_%d_%d", time.Now().UnixNano(),
\* rand.Intn(1000)).  Two identifiers are the same string exactly when both numbers
\* are the same.
generateSessionID(unixNano, intn) == << "session", unixNano, intn >>

\* The wall clock moves on.  Nothing makes it move between two StartGame requests:
\* two goroutines, or two calls within the resolution of the clock, read one value.
Clock_Advance ==
    /\ now < MaxNow
    /\ now' = now + 1
    /\ UNCHANGED << vars, call, stress, started, hubVars >>

\* StartGame, lines 124-135 (with the session's fields left aside): sessionID :=
\* generateSessionID(); gh.sessions[sessionID] = session, whether or not the
\* registry holds the identifier already.
StartGame_NewSession(userID, intn) ==
    /\ Len(started) < MaxSessions
    /\ LET sessionID == generateSessionID(now, intn)
       IN  /\ sessions' = sessions \cup {sessionID}
           /\ started' = Append(started, [sessionID |-> sessionID, UserID |-> userID])
    /\ UNCHANGED << Timer, sessionFields, log, startPc, timerPc, req, call, stress, now,
                    hubVars >>

RegistryNext ==
    \/ Clock_Advance
    \/ \E userID \in {OwnerID, OtherID} : \E intn \in 0..(IntnBound - 1) :
           StartGame_NewSession(userID, intn)

RegistrySpec == Init /\ [][RegistryNext]_<< vars, others >>

\* ------------------------------------------------------ the WebSocket hub

\* part_009 lines 104-111: the connection is upgraded and the client is made, with
\* send: make(chan []byte, 256).  It then waits at line 112 for the hub to take it.
handleWebSocket_NewClient(c) ==
    /\ clientPc[c] = "none"
    /\ clientPc' = [clientPc EXCEPT ![c] = "register"]
    /\ send' = [send EXCEPT ![c] = [NoChannel EXCEPT !.open = TRUE]]
    /\ UNCHANGED << clients, hub >>
    /\ UNCHANGED << vars, call, stress, now, started >>

\* Hub.Run, lines 44-46: case client := <-h.register, which meets the send of line
\* 112; then lines 114-115 start writePump and readPump.
Run_Register(c) ==
    /\ hub.pc = "select"
    /\ clientPc[c] = "register"
    /\ clients' = clients \cup {c}
    /\ clientPc' = [clientPc EXCEPT ![c] = "reading"]
    /\ UNCHANGED << send, hub >>
    /\ UNCHANGED << vars, call, stress, now, started >>

\* readPump, lines 69-82: ReadMessage returns an error (the peer went away, or
\* writePump closed the connection) and the deferred function waits at line 70 for
\* the hub to take the client.
readPump_Return(c) ==
    /\ clientPc[c] = "reading"
    /\ clientPc' = [clientPc EXCEPT ![c] = "unregister"]
    /\ UNCHANGED << clients, send, hub >>
    /\ UNCHANGED << vars, call, stress, now, started >>

\* close(client.send).  Closing a closed channel panics.
Close(c, by) ==
    IF send[c].open
    THEN /\ send' = [send EXCEPT ![c] = [@ EXCEPT !.open = FALSE, !.closes = @ + 1,
                                                   !.closedBy = by]]
         /\ hub' = [hub EXCEPT !.todo = @ \ {c}]
    ELSE /\ send' = [send EXCEPT ![c] = [@ EXCEPT !.closes = @ + 1]]
         /\ hub' = [pc |-> "panic", todo |-> {}]

\* Run_Unregister without the test of line 49.
Run_Unregister_NoTest(c) ==
    /\ hub.pc = "select"
    /\ clientPc[c] = "unregister"
    /\ clientPc' = [clientPc EXCEPT ![c] = "gone"]
    /\ clients' = clients \ {c}
    /\ Close(c, "unregister")
    /\ UNCHANGED << vars, call, stress, now, started >>

\* Hub.Run, lines 48-53: case client := <-h.unregister; if the client is in the map,
\* delete it and close its channel.  Line 71 then closes the connection.
Run_Unregister(c) ==
    /\ hub.pc = "select"
    /\ clientPc[c] = "unregister"
    /\ clientPc' = [clientPc EXCEPT ![c] = "gone"]
    /\ IF c \in clients
       THEN /\ clients' = clients \ {c}
            /\ Close(c, "unregister")
       ELSE UNCHANGED << clients, send, hub >>
    /\ UNCHANGED << vars, call, stress, now, started >>

\* Hub.Run, lines 55-56: case message := <-h.broadcast; the loop over h.clients
\* starts.
Run_Broadcast ==
    /\ hub.pc = "select"
    /\ hub' = [pc |-> "range", todo |-> clients]
    /\ UNCHANGED << clients, send, clientPc >>
    /\ UNCHANGED << vars, call, stress, now, started >>

\* Hub.Run, lines 57-62, for one client of the loop, in the order the map gives:
\* the message goes in the buffer if there is room; else the channel is closed and
\* the client deleted.  A send on a closed channel panics.
Run_BroadcastSend(c) ==
    /\ hub.pc = "range"
    /\ c \in hub.todo
    /\ IF ~send[c].open
       THEN /\ hub' = [pc |-> "panic", todo |-> {}]
            /\ UNCHANGED << clients, send >>
       ELSE IF send[c].n < SendBuffer
       THEN /\ send' = [send EXCEPT ![c].n = @ + 1]
            /\ hub' = [hub EXCEPT !.todo = @ \ {c}]
            /\ UNCHANGED clients
       ELSE /\ Close(c, "broadcast")
            /\ clients' = clients \ {c}
    /\ UNCHANGED clientPc
    /\ UNCHANGED << vars, call, stress, now, started >>

\* Hub.Run, line 63: the loop has visited every client; back to the select.
Run_BroadcastEnd ==
    /\ hub.pc = "range"
    /\ hub.todo = {}
    /\ hub' = [hub EXCEPT !.pc = "select"]
    /\ UNCHANGED << clients, send, clientPc >>
    /\ UNCHANGED << vars, call, stress, now, started >>

\* writePump, lines 88-96: a message is taken from the send channel, open or closed,
\* and written to the connection.
writePump_Receive(c) ==
    /\ clientPc[c] \in {"reading", "unregister", "gone"}
    /\ send[c].n > 0
    /\ send' = [send EXCEPT ![c].n = @ - 1]
    /\ UNCHANGED << clients, clientPc, hub >>
    /\ UNCHANGED << vars, call, stress, now, started >>

HubNext ==
    \/ \E c \in Clients : handleWebSocket_NewClient(c)
    \/ \E c \in Clients : Run_Register(c)
    \/ \E c \in Clients : readPump_Return(c)
    \/ \E c \in Clients : Run_Unregister(c)
    \/ Run_Broadcast
    \/ \E c \in Clients : Run_BroadcastSend(c)
    \/ Run_BroadcastEnd
    \/ \E c \in Clients : writePump_Receive(c)

HubSpec == Init /\ [][HubNext]_<< vars, others >>

\* ----------------------------------------------------------------- claims

\* Request r is a request of the session's owner that found the session.
OnSession(r) ==
    req[r].pc # "new" /\ req[r].sid = SessionID /\ req[r].user = OwnerID

\* Request r has just taken a step.
Stepped(r) == req'[r] # req[r]

\* Everything of the session and of its collaborators a request can change.
sessionState == << sessionFields, Timer, completions >>

\* C1: in every execution the game_over flag of the session, once true, is never
\* set back to false; so it goes from false to true at most once.
C1_GameOverNeverReset == [][GameOver => GameOver']_vars

\* C1 witness: the game is over and a ToggleTimer request that arrived after that has
\* been served in full.
C1_Witness ==
    /\ GameOver
    /\ \E r \in Requests :
           /\ req[r].kind = "Toggle" /\ req[r].overAtArrival
           /\ req[r].pc = "done" /\ req[r].status = "200"

\* C2 (as claimed): once game_over is true no mutable field of the session
\* (remaining_time, timer_enabled, questions_asked, a transcript) changes again.
C2_FrozenAfterGameOver == [][GameOver => UNCHANGED sessionFields]_vars

\* C3: an Accuse request of the owner that arrives after an accusation has returned
\* its verdict fails with "Game is already over", gets no verdict, never goes past
\* the game-over check, and none of its steps changes anything of the session.
C3_LaterAccusationRejected ==
    /\ [](\A r \in Requests :
            (OnSession(r) /\ req[r].kind = "Accuse" /\ req[r].resolvedAtArrival)
                => /\ req[r].pc \in {"entered", "done"}
                   /\ req[r].pc = "done"
                        => req[r].status = "Game is already over" /\ req[r].body = << >>)
    /\ [][\A r \in Requests :
            (OnSession(r) /\ req[r].kind = "Accuse" /\ req[r].resolvedAtArrival
                 /\ Stepped(r))
                => UNCHANGED sessionState]_vars

\* C3 witness: a first accusation returned its verdict and a second one, which
\* arrived after that, has been answered.
C3_Witness ==
    \E r1, r2 \in Requests :
        /\ req[r1].kind = "Accuse" /\ req[r1].status = "200"
        /\ req[r2].kind = "Accuse" /\ OnSession(r2) /\ req[r2].resolvedAtArrival
        /\ req[r2].pc = "done"

\* The countdown has set game_over (line 149).
TimedOut ==
    timerPc = "stop" \/ \E i \in 1..Len(completions) : completions[i].by = "timer"

\* C4 (as claimed): at most one Accuse request returns a verdict, and no Accuse
\* request returns a verdict for a session that has already timed out.
C4_SingleResolution ==
    /\ [](Cardinality({r \in Requests :
                          req[r].kind = "Accuse" /\ req[r].status = "200"}) <= 1)
    /\ [][\A r \in Requests :
            (req[r].kind = "Accuse" /\ req[r].status # "200" /\ req'[r].status = "200")
                => ~TimedOut]_vars

\* C5: an Ask request of the owner that arrives when game_over is true fails with
\* "Game is over", never goes past the game-over check (so it does not count the
\* question, appends nothing, sends no prompt to the collaborator), and none of its
\* steps changes anything of the session.
C5_AskOnOverSessionRejected ==
    /\ [](\A r \in Requests :
            (OnSession(r) /\ req[r].kind = "Ask" /\ req[r].overAtArrival)
                => /\ req[r].pc \in {"entered", "done"}
                   /\ req[r].prompt = << >>
                   /\ req[r].pc = "done"
                        => req[r].status = "Game is over" /\ req[r].body = << >>)
    /\ [][\A r \in Requests :
            (OnSession(r) /\ req[r].kind = "Ask" /\ req[r].overAtArrival /\ Stepped(r))
                => UNCHANGED sessionState]_vars

\* C5 witness: an Ask request with a well-formed body for a character of the mystery
\* arrived on a session that was over and has been answered.
C5_Witness ==
    \E r \in Requests :
        /\ req[r].kind = "Ask" /\ OnSession(r) /\ req[r].overAtArrival
        /\ req[r].bodyOK /\ req[r].character \in CharacterNames
        /\ req[r].pc = "done"

\* C6: the verdict of an accepted accusation says correct exactly when the suspect
\* string equals the mystery's killer string.
C6_CorrectIffExactKiller ==
    \A r \in Requests :
        (req[r].kind = "Accuse" /\ req[r].status = "200")
            => (req[r].body.correct <=> req[r].suspect = Murder.Killer)

\* C6 witness: a verdict for a suspect that differs from the killer only by case.
C6_Witness ==
    \E r \in Requests :
        /\ req[r].kind = "Accuse" /\ req[r].status = "200"
        /\ req[r].suspect = "eleanor" /\ ~req[r].body.correct

\* C7: an accusation that passed the game-over check has set game_over once it is
\* past line 319, whatever the suspect, and its verdict holds the mystery's killer,
\* weapon and location.
C7_AccusationResolvesAndReveals ==
    \A r \in Requests :
        req[r].kind = "Accuse" =>
            /\ (req[r].pc \in {"stop", "complete", "respond"} \/ req[r].status = "200")
                   => GameOver
            /\ req[r].status = "200"
                   => /\ req[r].body.killer = Murder.Killer
                      /\ req[r].body.weapon = Murder.Weapon
                      /\ req[r].body.location = Murder.Location

\* C7 witness: a wrong accusation has returned its verdict.
C7_Witness ==
    \E r \in Requests :
        /\ req[r].kind = "Accuse" /\ req[r].status = "200"
        /\ req[r].suspect # Murder.Killer /\ ~req[r].body.correct

\* C8: remaining_time of a session is never negative; every counted tick takes
\* exactly one second off it; and when it is 0 the tick that brought it there has set
\* game_over before it ends.  So from remaining_time = 2 two counted ticks leave
\* remaining_time = 0 and game_over = true.
C8_CountdownClamped ==
    SessionID \in sessions =>
        /\ RemainingTime >= 0
        /\ RemainingTime = InitialTime - ticksCounted
        /\ (RemainingTime = 0 /\ timerPc # "setOver") => GameOver

\* C8 witness: the countdown ran out on a session nobody accused on.
C8_Witness ==
    /\ RemainingTime = 0 /\ ticksCounted = InitialTime /\ GameOver /\ timerPc = "recv"
    /\ \A r \in Requests : req[r].kind # "Accuse"

\* C9 (as claimed): no two goroutines are ever about to access the same field of the
\* session at the same time with one of them writing.
C9_NoDataRace == ~DataRace

\* C10 (as claimed): in every transcript an assistant entry directly follows the user
\* entry of its own question, so no transcript reads question A, question B, reply B,
\* reply A.
C10_RepliesFollowTheirQuestion ==
    \A c \in CharacterNames : \A k \in 1..Len(Conversation[c]) :
        Conversation[c][k].Role = "assistant" =>
            /\ k > 1
            /\ Conversation[c][k - 1].Role = "user"
            /\ Conversation[c][k - 1].by = Conversation[c][k].by

\* C11 (as claimed): a character's transcript is append-only.  No step shortens a
\* transcript, and every entry keeps its position, its role and its content.
C11_TranscriptAppendOnly ==
    [][\A c \in CharacterNames :
          /\ Len(Conversation'[c]) >= Len(Conversation[c])
          /\ \A k \in 1..Len(Conversation[c]) :
                 Conversation'[c][k] = Conversation[c][k]]_vars

\* C12 (as claimed): a transcript that is not empty starts with the persona (system)
\* entry and holds no other system entry, and the persona entry is made once: no
\* later step makes it anew.
C12_PersonaOnce ==
    /\ [](\A c \in CharacterNames : \A k \in 1..Len(Conversation[c]) :
             Conversation[c][k].Role = "system" <=> k = 1)
    /\ [][\A c \in CharacterNames :
             Len(Conversation[c]) > 0
                 => Len(Conversation'[c]) > 0 /\ Conversation'[c][1] = Conversation[c][1]]_vars

\* C13 (as claimed): the prompt an Ask request submits to the collaborator is the
\* serialization of the whole transcript of its character at that moment; it starts
\* with the persona entry and its last entry is the question of this request.
C13_PromptIsWholeTranscript ==
    /\ [](\A r \in Requests :
             req[r].pc = "generate" =>
                 LET prompt == req[r].prompt
                 IN  /\ Len(prompt) >= 2
                     /\ prompt[1][1] = "system"
                     /\ prompt[Len(prompt)][1] = "user"
                     /\ prompt[Len(prompt)][2] \in { latest(TRUE, req[r].question),
                                                     latest(FALSE, req[r].question) })
    /\ [][\A r \in Requests :
             (req[r].pc = "serialise" /\ req'[r].pc = "generate")
                 => req'[r].prompt = serialiseConversation(Conversation[req[r].character])]_vars

\* C14: GetCharacterResponse returns an error exactly when the collaborator call
\* returned one.  When the collaborator returned a text, however malformed, it
\* returns a reply with a response and an emotion and no error; when the call failed
\* it returns the error and no reply.
C14_ErrorIffCollaboratorFailed ==
    call.pc = "returned" =>
        /\ call.err <=> call.failed
        /\ call.failed => call.reply = << >>
        /\ ~call.failed =>
               /\ Len(call.reply) = 1
               /\ DOMAIN call.reply[1] = {"Response", "Emotion"}

\* C14 witness: a text with braces that holds no well-formed object was answered
\* with a reply and no error.
C14_Witness ==
    /\ call.pc = "returned" /\ ~call.failed /\ ~call.err
    /\ call.resp = << Word("Sure"), LBrace, Mistyped, RBrace >>
    /\ call.reply = << [Response |-> call.resp, Emotion |-> "neutral"] >>

\* C15 (as claimed): the reply is the object the whole text is, if it is the
\* {response, emotion} object; or else the object that the text from its first "{"
\* to its last "}" is, if that is one; or else the whole text with the emotion
\* "neutral".  So a text without braces comes back whole, with emotion "neutral".
C15_ThreeLayerParse ==
    (call.pc = "returned" /\ ~call.failed) =>
        LET IsObject(text) ==
                \/ text = << LBrace, RBrace >>
                \/ Len(text) = 3 /\ text[1] = LBrace /\ text[2].t = "members"
                                 /\ text[3] = RBrace
            Object(text) ==
                IF Len(text) = 3
                THEN [Response |-> << Word(text[2].a) >>, Emotion |-> text[2].b]
                ELSE [Response |-> << >>, Emotion |-> ""]
            first == Index(call.resp, LBrace)
            last == LastIndex(call.resp, RBrace)
            inner == SubSeq(call.resp, first, last)
            reply == call.reply[1]
        IN  /\ Len(call.reply) = 1
            /\ IF IsObject(call.resp) THEN reply = Object(call.resp)
               ELSE IF first # 0 /\ last > first /\ IsObject(inner) THEN reply = Object(inner)
               ELSE reply = [Response |-> call.resp, Emotion |-> "neutral"]

\* C16 (as claimed): an Ask whose collaborator call failed leaves questions_asked as
\* it was before the request.  So the counter never exceeds the number of Ask
\* requests that have counted their question and have not failed.
C16_FailedAskNotCounted ==
    QuestionsAsked <=
        Cardinality({ r \in Requests :
                        /\ req[r].kind = "Ask"
                        /\ \/ req[r].pc \in { "isInitial", "seed", "appendRead", "appendWrite",
                                               "serialise", "generate", "reply" }
                           \/ req[r].status = "200" })

\* C17 (as claimed): an Ask whose collaborator call failed leaves the session as it
\* was.  No step of an Ask request changes game_over, and once the request has
\* failed the transcript of its character holds no entry made by it.
C17_FailedAskLeavesTranscript ==
    /\ [](\A r \in Requests :
             req[r].status = "Failed to get character response" =>
                 \A k \in 1..Len(Conversation[req[r].character]) :
                     Conversation[req[r].character][k].by # r)
    /\ [][\A r \in Requests :
             (req[r].kind = "Ask" /\ Stepped(r)) => GameOver' = GameOver]_vars

\* C18 (as claimed): the new stress level calculateStressResponse returns is at
\* least 0 and at most 100.
C18_StressWithinRange ==
    stress.pc = "returned" =>
        stress.newStressLevel >= Units(0) /\ stress.newStressLevel <= Units(100)

\* C19: before the random term the increase is 5, plus 15 for each high-stress and 8
\* for each medium-stress keyword the question contains, less 5 for each low-stress
\* keyword it contains but never below 1, times the factor of every trait the
\* personality contains (nervous 1.3, calm 0.7, secretive 1.2, aggressive 1.1).  It
\* is 5 for no keyword and no trait, and 26 for one high-stress keyword and a
\* personality that is nervous only.
C19_IncreaseBeforeNoise ==
    stress.pc = "random" =>
        LET questionLower == [i \in 1..Len(stress.question) |-> ToLower(stress.question[i])]
            traits == Occurrences(ToLower(stress.personality))
            Matched(keywords) ==
                Cardinality({ i \in 1..Len(keywords) : Contains(questionLower, keywords[i]) })
            high == Matched(highStressKeywords)
            medium == Matched(mediumStressKeywords)
            low == Matched(lowStressKeywords)
            points == Max(1, 5 + 15 * high + 8 * medium - 5 * low)
            Tenths(trait, tenths) == IF trait \in traits THEN tenths ELSE 10
            times == Tenths("nervous", 13) * Tenths("calm", 7) * Tenths("secretive", 12)
                         * Tenths("aggressive", 11)
        IN  /\ stress.stressIncrease = points * times
            /\ (high + medium + low = 0 /\ traits = {}) => stress.stressIncrease = Units(5)
            /\ (high = 1 /\ medium + low = 0 /\ traits = {"nervous"})
                   => stress.stressIncrease = Units(26)

\* C19 witness: one high-stress keyword, in upper case, put to a nervous character;
\* and the increase is 26.
C19_Witness ==
    /\ stress.pc = "random"
    /\ stress.question = << "MURDER" >> /\ stress.personality = "nervous"
    /\ stress.stressIncrease = Units(26)

\* C20 (as claimed): the identifier a StartGame stores its session under is the
\* identifier of no session already in the registry, so the sessions started all
\* have different identifiers and the registry holds every one of them.
C20_SessionIDsNeverCollide ==
    /\ \A i, j \in 1..Len(started) :
           i # j => started[i].sessionID # started[j].sessionID
    /\ Cardinality(sessions) = Len(started)

\* C21: an Ask, Accuse, GetTimer or ToggleTimer request whose identifier is not in
\* the registry when it arrives is answered "Game session not found" and nothing
\* else: the step that serves it leaves the registry and every field of the session
\* as they are, and the request takes no further step.
C21_LookupIsPure ==
    /\ [][\A r \in Requests :
             (req[r].pc = "new" /\ req'[r].pc # "new" /\ req'[r].sid \notin sessions)
                 => /\ req'[r].pc = "done"
                    /\ req'[r].status = "Game session not found"
                    /\ req'[r].body = << >>
                    /\ sessions' = sessions
                    /\ UNCHANGED sessionState]_vars
    /\ [][\A r \in Requests :
             req[r].status = "Game session not found" => req'[r] = req[r]]_vars

\* C21 witness: while a session is in the registry, an Ask and a ToggleTimer request
\* for another identifier have been answered "Game session not found".
C21_Witness ==
    /\ sessions = {SessionID}
    /\ \E r1, r2 \in Requests :
           /\ req[r1].kind = "Ask" /\ req[r2].kind = "Toggle"
           /\ \A r \in {r1, r2} :
                  /\ req[r].sid = UnknownSessionID
                  /\ req[r].pc = "done" /\ req[r].status = "Game session not found"

\* Some Accuse request has set game_over (it is past line 319).
Accused ==
    \E r \in Requests :
        /\ req[r].kind = "Accuse"
        /\ req[r].pc \in {"stop", "complete", "respond"} \/ req[r].status = "200"

\* C22 (as claimed): once an Accuse request has set game_over, remaining_time never
\* changes again and the countdown records no timeout for the session, whatever the
\* countdown was doing when the accusation was made.
C22_AccusationStopsCountdown ==
    [][Accused =>
          /\ RemainingTime' = RemainingTime
          /\ \A i \in 1..Len(completions') :
                 completions'[i].by = "timer" => i <= Len(completions)]_vars

\* C23: when ticks keep coming, a session that is started, whose timer stays enabled
\* and on which no accusation is made reaches game_over = true with
\* remaining_time = 0, whether or not the player makes any request.
C23_TimesOutOnItsOwn ==
    ( /\ [](SessionID \in sessions => TimerEnabled)
      /\ [](\A r \in Requests : req[r].kind # "Accuse") )
        => <>(GameOver /\ RemainingTime = 0)

\* C23 witness: the session is over with no time left, its timer still enabled, and
\* no request was ever made on it.
C23_Witness ==
    /\ GameOver /\ RemainingTime = 0 /\ TimerEnabled /\ Timer = "stopped"
    /\ \A r \in Requests : req[r].pc = "new"

\* C24: the stress state calculateStressResponse returns depends on the new stress
\* level it returns and on nothing else: calm below 25, composed below 40, nervous
\* below 55, agitated below 70, stressed below 85, and "nervous" again from 85 up.
C24_StateByThresholds ==
    stress.pc = "returned" =>
        LET level == stress.newStressLevel
        IN  stress.stressState =
                IF level < 25 * 10000 THEN "calm"
                ELSE IF level < 40 * 10000 THEN "composed"
                ELSE IF level < 55 * 10000 THEN "nervous"
                ELSE IF level < 70 * 10000 THEN "agitated"
                ELSE IF level < 85 * 10000 THEN "stressed"
                ELSE "nervous"

\* C24 witness: a new stress level in the top tier, below the cap of 100, was
\* returned with the state "nervous".
C24_Witness ==
    /\ stress.pc = "returned"
    /\ stress.newStressLevel >= Units(85) /\ stress.newStressLevel < Units(100)
    /\ stress.stressState = "nervous"

\* C25 (as claimed): when an Ask request returns its reply, the transcript of its
\* character ends with the assistant entry of that reply, holding the response text
\* and the emotion returned, and the entry before it is the user entry of the
\* question this request asked.
C25_ReplyEndsTranscript ==
    [][\A r \in Requests :
          (req[r].kind = "Ask" /\ req[r].status # "200" /\ req'[r].status = "200")
              => LET conversation == Conversation'[req[r].character]
                     n == Len(conversation)
                 IN  /\ n >= 2
                     /\ conversation[n].Role = "assistant"
                     /\ conversation[n].Content = req'[r].body.response
                     /\ conversation[n].Emotions = req'[r].body.emotion
                     /\ conversation[n - 1].Role = "user"
                     /\ conversation[n - 1].by = r
                     /\ conversation[n - 1].Content
                            \in { latest(TRUE, req[r].question),
                                  latest(FALSE, req[r].question) }]_vars

\* C26 (as claimed): the user service receives at most one CompleteGameSession call
\* for the session, with the outcome of what ended it: solved or not as the
\* accusation was right or wrong, not solved for a timeout; and it never receives
\* both a call of the countdown and a call of an accusation.
C26_CompletionOnce ==
    /\ Len(completions) <= 1
    /\ \A i \in 1..Len(completions) :
           IF completions[i].by = "timer" THEN ~completions[i].solved
           ELSE completions[i].solved <=> req[completions[i].req].correct
    /\ ~(\E i, j \in 1..Len(completions) :
             completions[i].by = "timer" /\ completions[j].by = "accuse")

\* The Ask requests that have passed the session, owner, game-over and character
\* checks, and those of them that have run line 235.
AskAccepted ==
    { r \in Requests :
        /\ req[r].kind = "Ask"
        /\ \/ req[r].pc \in { "incRead", "incWrite", "isInitial", "seed", "appendRead",
                              "appendWrite", "serialise", "generate", "reply" }
           \/ req[r].status \in { "200", "Failed to get character response" } }
AskCounted == { r \in AskAccepted : req[r].pc \notin { "incRead", "incWrite" } }

\* C27 (as claimed): questions_asked counts the accepted questions and loses none.
\* It is at least the number of Ask requests that have run line 235 and at most the
\* number that have passed the checks, however the requests overlap; an Ask for a
\* character that is not in the mystery is not among them.
C27_QuestionsCounted ==
    /\ Cardinality(AskCounted) <= QuestionsAsked
    /\ QuestionsAsked <= Cardinality(AskAccepted)
    /\ \A r \in Requests :
           req[r].status = "Character not found" => r \notin AskAccepted

\* C28: an Ask, Accuse, GetTimer or ToggleTimer request on a session of the registry
\* made by a user who is not its owner is answered "Access denied" and nothing else:
\* it carries no reply, verdict or timer values, the step that serves it leaves every
\* field of the session as it is, and the request takes no further step.
C28_OnlyOwnerActs ==
    /\ [][\A r \in Requests :
             (req[r].pc = "new" /\ req'[r].pc # "new" /\ req'[r].sid \in sessions
                  /\ req'[r].user # OwnerID)
                 => /\ req'[r].pc = "done"
                    /\ req'[r].status = "Access denied"
                    /\ req'[r].body = << >> /\ req'[r].reply = << >>
                    /\ sessions' = sessions
                    /\ UNCHANGED sessionState]_vars
    /\ [][\A r \in Requests :
             req[r].status = "Access denied" => req'[r] = req[r]]_vars
    /\ [](\A r \in Requests :
             (req[r].pc # "new" /\ req[r].user # OwnerID)
                 => req[r].pc = "done" /\ req[r].status # "200")

\* C28 witness: on a session that is running, an Accuse and a GetTimer request of
\* another user have been answered "Access denied", and the game is not over.
C28_Witness ==
    /\ SessionID \in sessions /\ ~GameOver /\ Timer = "running"
    /\ \E r1, r2 \in Requests :
           /\ req[r1].kind = "Accuse" /\ req[r2].kind = "GetTimer"
           /\ \A r \in {r1, r2} :
                  /\ req[r].sid = SessionID /\ req[r].user = OtherID
                  /\ req[r].pc = "done" /\ req[r].status = "Access denied"

\* C29 (as claimed): while timer_enabled is false no step of the countdown changes
\* remaining_time or game_over, so a paused session does not time out; and the write
\* of a ToggleTimer request sets timer_enabled to the negation of what it is and
\* changes no other field of the session.
C29_PausedTimerDoesNothing ==
    /\ [][(~TimerEnabled /\ timerPc' # timerPc)
              => RemainingTime' = RemainingTime /\ GameOver' = GameOver]_vars
    /\ [][\A r \in Requests :
             (req[r].pc = "toggle" /\ req'[r].pc = "toggled")
                 => /\ TimerEnabled' = ~TimerEnabled
                    /\ UNCHANGED << RemainingTime, GameOver, QuestionsAsked, Conversation,
                                    Timer, completions >>]_vars

\* C30: the send channel of a client is closed at most once and the hub never sends
\* on a closed channel (neither panic of Hub.Run happens); a client in the hub's map
\* has an open channel; and a client the hub has registered is in the map exactly
\* when its channel is open.
C30_HubChannels ==
    /\ hub.pc # "panic"
    /\ \A c \in Clients :
           /\ send[c].closes <= 1
           /\ c \in clients => send[c].open
           /\ clientPc[c] \in {"reading", "unregister", "gone"}
                  => (c \in clients <=> send[c].open)

\* C30 witness: a client whose buffer was full was closed and dropped by a
\* broadcast, the hub has since handled its unregister event, and another client
\* is still registered with an open channel.
C30_Witness ==
    \E c, d \in Clients :
        /\ send[c].closedBy = "broadcast" /\ send[c].closes = 1 /\ clientPc[c] = "gone"
        /\ c \notin clients
        /\ d \in clients /\ send[d].open
        /\ hub.pc = "select"

====
